---------------------------- MODULE Spec2Model ----------------------------
(***************************************************************************)
(* Iris core: the dual-strength Buffer (src/src/IrisBuffer.cpp) and the    *)
(* tile format conversion kernels (src/src/IrisSIMD.cpp).                  *)
(*                                                                         *)
(* Spec     : one Buffer object over a small heap; every constructor and   *)
(*            every member function of __INTERNAL__Buffer is one action.   *)
(* SpecConv : calls of Convert_tile_format on tile buffers.                *)
(***************************************************************************)
EXTENDS Integers, Sequences, FiniteSets, TLC

\* ------------------------------------------------------------------ bounds
\* Largest capacity / byte count the buffer actions request.
MaxCap == 2
\* Number of heap addresses the allocator can hand out.
NumPtr == 3

\* ------------------------------------------------------- program constants
NULL == 0
REFERENCE_WEAK == 0
REFERENCE_STRONG == 1
IRIS_SUCCESS == 0
IRIS_FAILURE == 65535

Byte == 0 .. 1
\* The value of a byte of a fresh allocation that nothing has written yet.
\* The buffer only ever copies such bytes, so one symbolic value stands for them.
Indeterminate == 2
Ptr == 1 .. NumPtr
\* The address of the region the caller hands to the copying / wrapping constructors.
CallerPtr == 1

Min(a, b) == IF a < b THEN a ELSE b

\* The byte strings of length n the callers pass (alternating, from either
\* value), and n unwritten bytes.
Bytes(n) == {[i \in 1 .. n |-> (i + k) % 2] : k \in Byte}
Fresh(n) == [i \in 1 .. n |-> Indeterminate]
BytesUpTo(n) == UNION {Bytes(k) : k \in 0 .. n}

Take(s, n) == SubSeq(s, 1, Min(n, Len(s)))

VARIABLES
    pc,         \* "none" (not constructed), "alive", "destroyed", "crashed"
    strength,   \* _strength
    capacity,   \* _capacity
    size,       \* _size
    data,       \* _data: NULL or a heap address
    heap,       \* the C heap: address -> [live, bytes]
    last,       \* the last call: its name, arguments, result and allocator call
    conv,       \* state of the tile conversion calls (SpecConv, SpecDown)
    enc         \* the encoder: status, paths, workers, output file (SpecEnc)

bvars == <<pc, strength, capacity, size, data, heap, last>>
vars == <<pc, strength, capacity, size, data, heap, last, conv, enc>>

\* --------------------------------------------------------------- the heap
DeadRegion == [live |-> FALSE, bytes |-> <<>>]
EmptyHeap == [p \in Ptr |-> DeadRegion]
FreePtrs(h) == {p \in Ptr : ~h[p].live}
\* The address the allocator hands out next: the lowest one not in use.
NextPtr(h) == {p \in FreePtrs(h) : \A q \in FreePtrs(h) : p <= q}
Live(h, p) == p \in Ptr /\ h[p].live
\* The bytes behind a data pointer (nothing behind NULL or a released region).
Region(h, p) == IF Live(h, p) THEN h[p].bytes ELSE <<>>

\* malloc(n): NULL, or a fresh region of n indeterminate bytes.
\* An outcome is [ptr, h, ub].
malloc(h, n) ==
    {[ptr |-> NULL, h |-> h, ub |-> FALSE]}
    \cup {[ptr |-> p, h |-> [h EXCEPT ![p] = [live |-> TRUE, bytes |-> b]], ub |-> FALSE] :
            p \in NextPtr(h), b \in {Fresh(n)}}

\* free(p)
free(h, p) ==
    IF p = NULL THEN [h |-> h, ub |-> FALSE]
    ELSE IF Live(h, p) THEN [h |-> [h EXCEPT ![p] = DeadRegion], ub |-> FALSE]
    ELSE [h |-> h, ub |-> TRUE]

\* The contents of a region resized to n bytes: the common prefix is kept,
\* bytes beyond it are indeterminate.
Resized(old, n) ==
    {Take(old, n) \o Fresh(IF n > Len(old) THEN n - Len(old) ELSE 0)}

\* realloc(p, n). realloc(NULL, n) is malloc(n). realloc(p, 0) is
\* implementation-defined: it may release p and return NULL, or return a
\* zero-length region. Otherwise it fails (NULL, p untouched), resizes in
\* place, or moves the bytes to a fresh region and releases p.
realloc(h, p, n) ==
    IF p = NULL THEN malloc(h, n)
    ELSE IF ~Live(h, p) THEN {[ptr |-> NULL, h |-> h, ub |-> TRUE]}
    ELSE {[ptr |-> NULL, h |-> h, ub |-> FALSE]}
         \cup (IF n = 0
               THEN {[ptr |-> NULL, h |-> [h EXCEPT ![p] = DeadRegion], ub |-> FALSE]}
               ELSE {})
         \cup {[ptr |-> p, h |-> [h EXCEPT ![p].bytes = b], ub |-> FALSE] :
                 b \in Resized(h[p].bytes, n)}
         \cup {[ptr |-> q,
                h |-> [h EXCEPT ![p] = DeadRegion, ![q] = [live |-> TRUE, bytes |-> b]],
                ub |-> FALSE] :
                 q \in NextPtr(h), b \in Resized(h[p].bytes, n)}

\* memcpy(dst + off, src, Len(src)) into the region behind dst. Copying zero
\* bytes touches nothing; any other copy through NULL, a released region or
\* past the end of the region is a memory error.
memcpy(h, dst, off, src) ==
    IF Len(src) = 0 THEN [h |-> h, ub |-> FALSE]
    ELSE IF ~Live(h, dst) \/ off + Len(src) > Len(h[dst].bytes) THEN [h |-> h, ub |-> TRUE]
    ELSE [h |-> [h EXCEPT ![dst].bytes =
                    [i \in 1 .. Len(@) |->
                        IF i > off /\ i <= off + Len(src) THEN src[i - off] ELSE @[i]]],
          ub |-> FALSE]

\* ------------------------------------------------------ the buffer object
\* The fields of a buffer as a record, and pointers into it as [base, off].
Obj(st, c, s, d) == [strength |-> st, capacity |-> c, size |-> s, data |-> d]
Self == Obj(strength, capacity, size, data)
NullPtr == [base |-> NULL, off |-> 0]
PtrAt(d, off) == [base |-> d, off |-> off]

\* size_t available_bytes() const
available_bytes(b) == IF b.capacity > b.size THEN b.capacity - b.size ELSE 0

\* change_capacity without its REFERENCE_WEAK check.
change_capacity_unguarded(b, h, c) ==
    IF c = b.capacity
    THEN {[b |-> b, h |-> h, ret |-> IRIS_SUCCESS, mem |-> "none", got |-> NULL, ub |-> FALSE]}
    ELSE {IF r.ptr # NULL
          THEN [b |-> [b EXCEPT !.size = IF b.size < c THEN b.size ELSE c,
                                !.capacity = c,
                                !.data = r.ptr],
                h |-> r.h, ret |-> IRIS_SUCCESS, mem |-> "realloc", got |-> r.ptr, ub |-> r.ub]
          ELSE [b |-> b, h |-> r.h, ret |-> IRIS_FAILURE, mem |-> "realloc", got |-> r.ptr,
                ub |-> r.ub] :
            r \in realloc(h, b.data, c)}

\* Result change_capacity(size_t capacity). An outcome is [b, h, ret, mem, got, ub]:
\* the object, the heap, the result, the allocator function called ("none" if
\* none), the pointer the allocator returned, and whether memory was misused.
change_capacity(b, h, c) ==
    IF b.strength = REFERENCE_WEAK
    THEN {[b |-> b, h |-> h, ret |-> IRIS_FAILURE, mem |-> "none", got |-> NULL, ub |-> FALSE]}
    ELSE IF c = b.capacity
    THEN {[b |-> b, h |-> h, ret |-> IRIS_SUCCESS, mem |-> "none", got |-> NULL, ub |-> FALSE]}
    ELSE {IF r.ptr # NULL
          THEN [b |-> [b EXCEPT !.size = IF b.size < c THEN b.size ELSE c,
                                !.capacity = c,
                                !.data = r.ptr],
                h |-> r.h, ret |-> IRIS_SUCCESS, mem |-> "realloc", got |-> r.ptr, ub |-> r.ub]
          ELSE [b |-> b, h |-> r.h, ret |-> IRIS_FAILURE, mem |-> "realloc", got |-> r.ptr,
                ub |-> r.ub] :
            r \in realloc(h, b.data, c)}

\* What a call returned: a Result flag, a pointer, an exception, or nothing.
RetFlag(f) == [kind |-> "flag", flag |-> f, ptr |-> NullPtr]
RetPtr(p) == [kind |-> "ptr", flag |-> IRIS_SUCCESS, ptr |-> p]
RetThrow == [kind |-> "throw", flag |-> IRIS_FAILURE, ptr |-> NullPtr]
RetVoid == [kind |-> "void", flag |-> IRIS_SUCCESS, ptr |-> NullPtr]
Out(b, h, ret, mem, got, ub) ==
    [b |-> b, h |-> h, ret |-> ret, mem |-> mem, got |-> got, ub |-> ub]

\* Result prepare(size_t bytes)
prepare(b, h, bytes) ==
    {Out(o.b, o.h, RetFlag(o.ret), o.mem, o.got, o.ub) :
        o \in change_capacity(b, h, b.capacity + bytes)}

\* Result shrink_to_fit()
shrink_to_fit(b, h) ==
    {Out(o.b, o.h, RetFlag(o.ret), o.mem, o.got, o.ub) : o \in change_capacity(b, h, b.size)}

\* Result set_size(size_t bytes)
set_size(b, h, bytes) ==
    {Out([b EXCEPT !.size = bytes], h, RetFlag(IRIS_SUCCESS), "none", NULL, FALSE)}

\* Result change_strength(BufferReferenceStrength)
change_strength(b, h, assign) ==
    {Out([b EXCEPT !.strength = assign], h, RetFlag(IRIS_SUCCESS), "none", NULL, FALSE)}

\* void* append(size_t __S)
append(b, h, S) ==
    LET OLD_SIZE == b.size
        Done(bb, hh, mem, got, ub) ==
            Out([bb EXCEPT !.size = bb.size + S], hh, RetPtr(PtrAt(bb.data, OLD_SIZE)),
                mem, got, ub)
    IN  IF available_bytes(b) < S
        THEN {IF o.ret = IRIS_FAILURE THEN Out(o.b, o.h, RetPtr(NullPtr), o.mem, o.got, o.ub)
              ELSE IF o.b.capacity < OLD_SIZE THEN Out(o.b, o.h, RetPtr(NullPtr), o.mem, o.got, o.ub)
              ELSE Done(o.b, o.h, o.mem, o.got, o.ub) :
                o \in change_capacity(b, h, b.capacity + S - available_bytes(b))}
        ELSE {Done(b, h, "none", NULL, FALSE)}

\* Result append(void* __D, size_t __S), D the __S bytes behind __D
append_bytes(b, h, D) ==
    LET OLD_SIZE == b.size
        S == Len(D)
        Done(bb, hh, mem, got, ub) ==
            LET m == memcpy(hh, bb.data, OLD_SIZE, D)
            IN  Out([bb EXCEPT !.size = bb.size + S], m.h, RetFlag(IRIS_SUCCESS), mem, got,
                    ub \/ m.ub)
    IN  IF available_bytes(b) < S
        THEN {IF o.ret = IRIS_FAILURE THEN Out(o.b, o.h, RetFlag(IRIS_FAILURE), o.mem, o.got, o.ub)
              ELSE IF o.b.size <= OLD_SIZE THEN Out(o.b, o.h, RetFlag(IRIS_FAILURE), o.mem, o.got, o.ub)
              ELSE Done(o.b, o.h, o.mem, o.got, o.ub) :
                o \in change_capacity(b, h, available_bytes(b) + S)}
        ELSE {Done(b, h, "none", NULL, FALSE)}

\* void* Buffer_write_into_buffer(Buffer&, size_t& bytes)
Buffer_write_into_buffer(b, h, bytes) ==
    IF b.strength = REFERENCE_WEAK
    THEN IF b.size < bytes
         THEN {Out(b, h, RetThrow, "none", NULL, FALSE)}
         ELSE {Out(b, h, RetPtr(PtrAt(b.data, 0)), "none", NULL, FALSE)}
    ELSE append(b, h, bytes)

\* __INTERNAL__Buffer(BufferReferenceStrength): the members keep their
\* default initialisers.
ctor_empty(ref) == {Out(Obj(ref, 0, 0, NULL), EmptyHeap, RetVoid, "none", NULL, FALSE)}

\* __INTERNAL__Buffer(BufferReferenceStrength, size_t __C)
ctor_capacity(ref, C) ==
    {Out(Obj(ref, C, 0, r.ptr), r.h, RetVoid, "malloc", r.ptr, r.ub) : r \in malloc(EmptyHeap, C)}

\* __INTERNAL__Buffer(BufferReferenceStrength, const void* __D, size_t __S),
\* D the __S bytes of the caller's region at CallerPtr.
ctor_data(ref, D) ==
    LET h0 == [EmptyHeap EXCEPT ![CallerPtr] = [live |-> TRUE, bytes |-> D]]
        S == Len(D)
    IN  IF ref = REFERENCE_STRONG
        THEN {LET m == memcpy(r.h, r.ptr, 0, D)
              IN  Out(Obj(ref, S, S, r.ptr), m.h, RetVoid, "malloc", r.ptr, r.ub \/ m.ub) :
                r \in malloc(h0, S)}
        ELSE {Out(Obj(ref, S, S, CallerPtr), h0, RetVoid, "none", NULL, FALSE)}

\* A destructor that releases the region whatever the strength.
dtor_frees_always(b, h) ==
    LET z == [b EXCEPT !.capacity = 0, !.size = 0]
    IN  IF b.data # NULL
        THEN LET f == free(h, b.data) IN {Out(z, f.h, RetVoid, "free", NULL, f.ub)}
        ELSE {Out(z, h, RetVoid, "none", NULL, FALSE)}

\* ~__INTERNAL__Buffer()
dtor(b, h) ==
    LET z == [b EXCEPT !.capacity = 0, !.size = 0]
    IN  IF b.strength = REFERENCE_STRONG
        THEN IF b.data # NULL
             THEN LET f == free(h, b.data) IN {Out(z, f.h, RetVoid, "free", NULL, f.ub)}
             ELSE {Out(z, h, RetVoid, "none", NULL, FALSE)}
        ELSE {Out(z, h, RetVoid, "none", NULL, FALSE)}

\* Buffer Create_strong_buffer ()
Create_strong_buffer0 == ctor_empty(REFERENCE_STRONG)
\* Buffer Create_strong_buffer (size_t bytes)
Create_strong_buffer(bytes) == ctor_capacity(REFERENCE_STRONG, bytes)
\* Buffer Copy_strong_buffer_from_data (const void*, size_t)
Copy_strong_buffer_from_data(D) == ctor_data(REFERENCE_STRONG, D)
\* Buffer Wrap_weak_buffer_fom_data (const void*, size_t)
Wrap_weak_buffer_fom_data(D) == ctor_data(REFERENCE_WEAK, D)

\* ------------------------------------------------------------ Spec: Buffer
NoCall ==
    [op |-> "none", n |-> 0, bytes |-> <<>>, ret |-> RetVoid, mem |-> "none", got |-> NULL]

ConvIdle == [pc |-> "off"]
EncIdle == [pc |-> "off"]

Init ==
    /\ pc = "none"
    /\ strength = REFERENCE_STRONG
    /\ capacity = 0
    /\ size = 0
    /\ data = NULL
    /\ heap = EmptyHeap
    /\ last = NoCall
    /\ conv = ConvIdle
    /\ enc = EncIdle

\* One call: the object and the heap take one of the call's outcomes; an
\* outcome with a memory error ends the run.
Call(op, n, bytes, outcomes, nextpc) ==
    \E o \in outcomes :
        /\ pc' = IF o.ub THEN "crashed" ELSE nextpc
        /\ strength' = o.b.strength
        /\ capacity' = o.b.capacity
        /\ size' = o.b.size
        /\ data' = o.b.data
        /\ heap' = o.h
        /\ last' = [op |-> op, n |-> n, bytes |-> bytes, ret |-> o.ret, mem |-> o.mem,
                    got |-> o.got]
        /\ UNCHANGED <<conv, enc>>

CreateStrong0 ==
    /\ pc = "none"
    /\ Call("Create_strong_buffer0", 0, <<>>, Create_strong_buffer0, "alive")

CreateStrongN ==
    /\ pc = "none"
    /\ \E n \in 0 .. MaxCap : Call("Create_strong_buffer", n, <<>>, Create_strong_buffer(n), "alive")

CopyStrong ==
    /\ pc = "none"
    /\ \E D \in BytesUpTo(MaxCap) :
        Call("Copy_strong_buffer_from_data", Len(D), D, Copy_strong_buffer_from_data(D), "alive")

WrapWeak ==
    /\ pc = "none"
    /\ \E D \in BytesUpTo(MaxCap) :
        Call("Wrap_weak_buffer_fom_data", Len(D), D, Wrap_weak_buffer_fom_data(D), "alive")

AppendSize ==
    /\ pc = "alive"
    /\ \E n \in 0 .. MaxCap :
        /\ capacity + n - available_bytes(Self) <= MaxCap
        /\ Call("append", n, <<>>, append(Self, heap, n), "alive")

AppendBytes ==
    /\ pc = "alive"
    /\ \E D \in BytesUpTo(MaxCap) :
        /\ available_bytes(Self) + Len(D) <= MaxCap
        /\ size + Len(D) <= MaxCap
        /\ Call("append_bytes", Len(D), D, append_bytes(Self, heap, D), "alive")

Prepare ==
    /\ pc = "alive"
    /\ \E n \in 0 .. MaxCap :
        /\ capacity + n <= MaxCap
        /\ Call("prepare", n, <<>>, prepare(Self, heap, n), "alive")

SetSize ==
    /\ pc = "alive"
    /\ \E n \in 0 .. MaxCap : Call("set_size", n, <<>>, set_size(Self, heap, n), "alive")

ShrinkToFit ==
    /\ pc = "alive"
    /\ Call("shrink_to_fit", 0, <<>>, shrink_to_fit(Self, heap), "alive")

ChangeCapacity ==
    /\ pc = "alive"
    /\ \E n \in 0 .. MaxCap :
        Call("change_capacity", n, <<>>,
             {Out(o.b, o.h, RetFlag(o.ret), o.mem, o.got, o.ub) : o \in change_capacity(Self, heap, n)},
             "alive")

ChangeStrength ==
    /\ pc = "alive"
    /\ \E s \in {REFERENCE_WEAK, REFERENCE_STRONG} :
        Call("change_strength", s, <<>>, change_strength(Self, heap, s), "alive")

WriteIntoBuffer ==
    /\ pc = "alive"
    /\ \E n \in 0 .. MaxCap :
        /\ strength = REFERENCE_STRONG => capacity + n - available_bytes(Self) <= MaxCap
        /\ Call("Buffer_write_into_buffer", n, <<>>, Buffer_write_into_buffer(Self, heap, n), "alive")

Destroy ==
    /\ pc = "alive"
    /\ Call("dtor", 0, <<>>, dtor(Self, heap), "destroyed")

Next ==
    \/ CreateStrong0
    \/ CreateStrongN
    \/ CopyStrong
    \/ WrapWeak
    \/ AppendSize
    \/ AppendBytes
    \/ Prepare
    \/ SetSize
    \/ ShrinkToFit
    \/ ChangeCapacity
    \/ ChangeStrength
    \/ WriteIntoBuffer
    \/ Destroy

Spec == Init /\ [][Next]_vars

\* ================================================ tile format conversion
\* A tile has 2^LogTileArea pixels.
LogTileArea == 4

TILE_PIX_AREA == 2 ^ LogTileArea
\* Lanes(ScalableTag<uint8_t>): a power of two, from the scalar target up to
\* a quarter of the tile.
LaneCounts == {2 ^ k : k \in 0 .. LogTileArea - 2}

FORMAT_UNDEFINED == 0
FORMAT_B8G8R8 == 1
FORMAT_R8G8B8 == 2
FORMAT_B8G8R8A8 == 3
FORMAT_R8G8B8A8 == 4
Formats == FORMAT_UNDEFINED .. FORMAT_R8G8B8A8
DefinedFormats == Formats \ {FORMAT_UNDEFINED}

TASK_EXPAND_ALPHA == 1
TASK_STRIP_ALPHA == 2
TASK_SWAP_0_2 == 16

\* What unwritten bytes of a fresh allocation may hold.
Garbage == {0, 255}
\* The pixel bytes of the source tiles: every byte of a tile differs.
TilePattern(seed, n) == [j \in 1 .. n |-> (7 * j + 3 + 128 * seed) % 256]
Seeds == 0 .. 1

StoreNothing(m, off, vals) == m

\* Bytes [off, off + Len(vals)) of region m overwritten by vals.
Store(m, off, vals) ==
    [j \in 1 .. Len(m) |-> IF j > off /\ j <= off + Len(vals) THEN vals[j - off] ELSE m[j]]

\* The n bytes at the start of region m; bytes past its end are whatever
\* lies behind it in memory.
ReadBytes(m, n, g) == [j \in 1 .. n |-> IF j <= Len(m) THEN m[j] ELSE g]

\* LoadInterleaved3 / LoadInterleaved4: C vectors of N lanes from C*N
\* consecutive bytes at offset off.
LoadInterleaved(m, off, C, N) ==
    [c \in 1 .. C |-> [k \in 1 .. N |-> m[off + C * (k - 1) + c]]]

\* StoreInterleaved3 / StoreInterleaved4: the lanes of the vectors vs,
\* interleaved, to Len(vs) * N consecutive bytes at offset off.
StoreInterleaved(m, off, vs, N) ==
    Store(m, off, [j \in 1 .. Len(vs) * N |-> vs[((j - 1) % Len(vs)) + 1][((j - 1) \div Len(vs)) + 1]])

Splat(v, N) == [k \in 1 .. N |-> v]

\* The kernels work on mm, the regions of all buffers, reading region s and
\* writing region d (which may be the same region).
RECURSIVE ExpandScalarLoop(_, _, _, _)
ExpandScalarLoop(mm, s, d, i) ==
    IF i >= 0
    THEN ExpandScalarLoop(
            [mm EXCEPT ![d] = Store(@, i * 4,
                <<mm[s][i * 3 + 1], mm[s][i * 3 + 2], mm[s][i * 3 + 3], 255>>)],
            s, d, i - 1)
    ELSE mm

RECURSIVE ExpandVectorLoop(_, _, _, _, _)
ExpandVectorLoop(mm, s, d, N, i) ==
    IF i - N >= 0
    THEN LET v == LoadInterleaved(mm[s], i * 3, 3, N)
         IN  ExpandVectorLoop(
                [mm EXCEPT ![d] = StoreInterleaved(@, i * 4, <<v[1], v[2], v[3], Splat(255, N)>>, N)],
                s, d, N, i - N)
    ELSE ExpandScalarLoop(mm, s, d, i)

\* void EXPAND_TILE_ADD_ALPHA_8bit (const uint8_t* src, uint8_t* dst)
EXPAND_TILE_ADD_ALPHA_8bit(mm, s, d, N) ==
    ExpandVectorLoop(mm, s, d, N, TILE_PIX_AREA - (N + 1))

\* A strip whose scalar cleanup loop is missing.
ShrinkScalarLoopSkipped(mm, s, d, i) == mm

RECURSIVE ShrinkScalarLoop(_, _, _, _)
ShrinkScalarLoop(mm, s, d, i) ==
    IF i < TILE_PIX_AREA
    THEN ShrinkScalarLoop(
            [mm EXCEPT ![d] = Store(@, i * 3,
                <<mm[s][i * 4 + 1], mm[s][i * 4 + 2], mm[s][i * 4 + 3]>>)],
            s, d, i + 1)
    ELSE mm

RECURSIVE ShrinkVectorLoop(_, _, _, _, _)
ShrinkVectorLoop(mm, s, d, N, i) ==
    IF i + N < TILE_PIX_AREA
    THEN LET v == LoadInterleaved(mm[s], i * 4, 4, N)
         IN  ShrinkVectorLoop(
                [mm EXCEPT ![d] = StoreInterleaved(@, i * 3, <<v[1], v[2], v[3]>>, N)],
                s, d, N, i + N)
    ELSE ShrinkScalarLoop(mm, s, d, i)

\* void SHRINK_TILE_RM_ALPHA_8bit (const uint8_t* src, uint8_t* dst)
SHRINK_TILE_RM_ALPHA_8bit(mm, s, d, N) == ShrinkVectorLoop(mm, s, d, N, 0)

\* The scalar loops of the two swaps: bytes i and i + 2 exchanged, every CH bytes.
RECURSIVE SwapScalarLoop(_, _, _, _)
SwapScalarLoop(mm, d, CH, i) ==
    IF i < TILE_PIX_AREA * CH
    THEN SwapScalarLoop(
            [mm EXCEPT ![d] = [@ EXCEPT ![i + 1] = mm[d][i + 3], ![i + 3] = mm[d][i + 1]]],
            d, CH, i + CH)
    ELSE mm

RECURSIVE SwapVectorLoop(_, _, _, _, _)
SwapVectorLoop(mm, d, CH, N, i) ==
    IF i + N < TILE_PIX_AREA * CH
    THEN LET v == LoadInterleaved(mm[d], i, CH, N)
         IN  SwapVectorLoop(
                [mm EXCEPT ![d] = StoreInterleaved(@, i,
                    IF CH = 3 THEN <<v[3], v[2], v[1]>> ELSE <<v[3], v[2], v[1], v[4]>>, N)],
                d, CH, N, i + N * CH)
    ELSE SwapScalarLoop(mm, d, CH, i)

\* void SWAP_TILE_3_CHANNELS_0_2_8bit (uint8_t* src)
SWAP_TILE_3_CHANNELS_0_2_8bit(mm, d, N) == SwapVectorLoop(mm, d, 3, N, 0)
\* void SWAP_TILE_4_CHANNELS_0_2_8bit (uint8_t* src)
SWAP_TILE_4_CHANNELS_0_2_8bit(mm, d, N) == SwapVectorLoop(mm, d, 4, N, 0)

\* A tile buffer is [size, capacity]; its region, of capacity bytes, is kept
\* apart (regions[id]) because two handles can name one buffer. An absent
\* Buffer (a null shared_ptr) is id 0.
NoBuffer == 0
TileBuf(sz, cap) == [size |-> sz, capacity |-> cap]

\* The switch over s_fmt / d_fmt that sets s_bpp / d_bpp; 0 where it throws.
BytesPerPixel(fmt) ==
    IF fmt \in {FORMAT_B8G8R8, FORMAT_R8G8B8} THEN 3
    ELSE IF fmt \in {FORMAT_B8G8R8A8, FORMAT_R8G8B8A8} THEN 4
    ELSE 0

\* Task selection 1): number of channels.
ChannelTask(s_fmt, d_fmt) ==
    IF s_fmt \in {FORMAT_UNDEFINED, FORMAT_B8G8R8, FORMAT_R8G8B8}
    THEN IF d_fmt \in {FORMAT_B8G8R8A8, FORMAT_R8G8B8A8} THEN TASK_EXPAND_ALPHA ELSE 0
    ELSE IF s_fmt \in {FORMAT_B8G8R8A8, FORMAT_R8G8B8A8}
    THEN IF d_fmt \in {FORMAT_B8G8R8, FORMAT_R8G8B8} THEN TASK_STRIP_ALPHA ELSE 0
    ELSE 0

\* Task selection 2): channel ordering.
OrderTask(s_fmt, d_fmt) ==
    IF s_fmt \in {FORMAT_UNDEFINED, FORMAT_B8G8R8, FORMAT_B8G8R8A8}
    THEN IF d_fmt \in {FORMAT_R8G8B8, FORMAT_R8G8B8A8} THEN TASK_SWAP_0_2 ELSE 0
    ELSE IF s_fmt \in {FORMAT_R8G8B8, FORMAT_R8G8B8A8}
    THEN IF d_fmt \in {FORMAT_B8G8R8, FORMAT_B8G8R8A8} THEN TASK_SWAP_0_2 ELSE 0
    ELSE 0

\* Buffer Convert_tile_format (const Buffer& src, Format s_fmt, Format d_fmt,
\*                             const Buffer& __dst)
\* over the buffers bufs and their regions mm, with N lanes and g the byte
\* that fills a fresh allocation (Create_strong_buffer is taken to obtain its
\* storage here). The result is [bufs, mm, ret, thrown, ub].
Convert_tile_format(bufs, mm, N, g, src, s_fmt, d_fmt, dstopt) ==
    LET Result(b, m, r, t) == [bufs |-> b, mm |-> m, ret |-> r, thrown |-> t, ub |-> FALSE]
    IN
    IF s_fmt = d_fmt
    THEN \* No need to convert...
         IF dstopt = NoBuffer \/ bufs[dstopt].capacity < bufs[src].size
         THEN Result([bufs EXCEPT ![src].size = bufs[src].size], mm, src, FALSE)
         ELSE Result([bufs EXCEPT ![dstopt].size = bufs[src].size],
                     [mm EXCEPT ![dstopt] = Store(@, 0, SubSeq(mm[src], 1, bufs[src].size))],
                     dstopt, FALSE)
    ELSE IF BytesPerPixel(s_fmt) = 0 \/ BytesPerPixel(d_fmt) = 0
    THEN Result(bufs, mm, NoBuffer, TRUE)
    ELSE
    LET d_bpp == BytesPerPixel(d_fmt)
        fresh == dstopt = NoBuffer \/ bufs[dstopt].capacity < TILE_PIX_AREA * d_bpp
        \* dst = Create_strong_buffer(TILE_PIX_AREA * d_bpp)
        dst == IF fresh THEN Len(bufs) + 1 ELSE dstopt
        bufs1 == IF fresh THEN Append(bufs, TileBuf(0, TILE_PIX_AREA * d_bpp)) ELSE bufs
        mm1 == IF fresh THEN Append(mm, Splat(g, TILE_PIX_AREA * d_bpp)) ELSE mm
        tasks == ChannelTask(s_fmt, d_fmt) + OrderTask(s_fmt, d_fmt)
        expand == (tasks % 2) = 1
        strip == ((tasks \div 2) % 2) = 1
        swap == ((tasks \div 16) % 2) = 1
        \* Resizing functions
        mm2 == IF expand THEN EXPAND_TILE_ADD_ALPHA_8bit(mm1, src, dst, N)
               ELSE IF strip THEN SHRINK_TILE_RM_ALPHA_8bit(mm1, src, dst, N)
               ELSE IF src # dst
                    THEN [mm1 EXCEPT ![dst] = Store(@, 0, ReadBytes(mm1[src], bufs1[dst].size, g))]
                    ELSE mm1
        \* memcpy(dst->data(), src->data(), dst->size()) past the end of a region
        overrun == /\ ~expand /\ ~strip /\ src # dst
                   /\ (bufs1[dst].size > Len(mm1[src]) \/ bufs1[dst].size > Len(mm1[dst]))
        \* byte-swap functions
        mm3 == IF swap
               THEN IF d_bpp = 3 THEN SWAP_TILE_3_CHANNELS_0_2_8bit(mm2, dst, N)
                    ELSE SWAP_TILE_4_CHANNELS_0_2_8bit(mm2, dst, N)
               ELSE mm2
    IN  [Result([bufs1 EXCEPT ![dst].size = TILE_PIX_AREA * d_bpp], mm3, dst, FALSE)
            EXCEPT !.ub = overrun]

\* ---------------------------------------------------------------- SpecConv
\* A caller converts a tile through a chain of Convert_tile_format calls,
\* each on the buffer the previous one returned and from the format that
\* buffer is in (spec: every Buffer is paired with a Format).
\* conv = [pc, N, g, bufs, mm, cur, fmt, log, twin]: buffer 1 is the source
\* tile, buffer 2 a destination buffer of the caller; cur is the buffer the
\* chain has reached and fmt its format; log records the calls; twin is the
\* record of the same first call made on a copy of the caller's memory with
\* another destination (<<>> when no such call was made). pc is "on",
\* "converted", "back", "compared", or "crashed" after a memory error.
Contents(c, id) == SubSeq(c.mm[id], 1, Min(c.bufs[id].size, Len(c.mm[id])))

\* The caller's destination buffer: [capacity, size] in tiles of 3 or 4 channels.
Destinations == {<<3, 0>>, <<4, 0>>, <<4, 4>>}

\* The capacity of the source buffer, in tiles of one channel: just its
\* tile, or room for a 4-channel tile.
SourceRoom(channels) == {channels, 4}

InitConv ==
    /\ pc = "none"
    /\ strength = REFERENCE_STRONG
    /\ capacity = 0
    /\ size = 0
    /\ data = NULL
    /\ heap = EmptyHeap
    /\ last = NoCall
    /\ enc = EncIdle
    /\ \E N \in LaneCounts, g \in Garbage, fmt \in Formats, dest \in Destinations, seed \in Seeds :
        \E channels \in (IF fmt = FORMAT_UNDEFINED THEN {3, 4} ELSE {BytesPerPixel(fmt)}) :
            \E room \in SourceRoom(channels) :
                LET n == TILE_PIX_AREA * channels
                    cap == TILE_PIX_AREA * room
                IN  conv = [pc |-> "on", N |-> N, g |-> g,
                            bufs |-> <<TileBuf(n, cap),
                                       TileBuf(TILE_PIX_AREA * dest[2], TILE_PIX_AREA * dest[1])>>,
                            mm |-> <<TilePattern(seed, n) \o Splat(g, cap - n),
                                     Splat(g, TILE_PIX_AREA * dest[1])>>,
                            cur |-> 1, fmt |-> fmt,
                            log |-> <<>>, twin |-> <<>>]

\* The buffer the caller passed as destination: its size, capacity and region.
Provided(bufs, mm, dstopt) ==
    IF dstopt = NoBuffer THEN <<>> ELSE <<bufs[dstopt].size, bufs[dstopt].capacity, mm[dstopt]>>

\* The call Convert_tile_format(cur, fmt, d_fmt, dstopt) and its record in the log.
Converted(c, d_fmt, dstopt, nextpc) ==
    LET r == Convert_tile_format(c.bufs, c.mm, c.N, c.g, c.cur, c.fmt, d_fmt, dstopt)
    IN  [c EXCEPT
            !.pc = IF r.ub THEN "crashed" ELSE nextpc,
            !.bufs = r.bufs,
            !.mm = r.mm,
            !.cur = IF r.thrown THEN @ ELSE r.ret,
            !.fmt = IF r.thrown THEN @ ELSE d_fmt,
            !.log = Append(@,
                [src |-> c.cur, s_fmt |-> c.fmt, d_fmt |-> d_fmt,
                 dst |-> dstopt, ret |-> r.ret, thrown |-> r.thrown, ub |-> r.ub,
                 input |-> Contents(c, c.cur),
                 dst_pre |-> Provided(c.bufs, c.mm, dstopt),
                 dst_post |-> Provided(r.bufs, r.mm, dstopt),
                 output |-> IF r.thrown THEN <<>>
                            ELSE SubSeq(r.mm[r.ret], 1, r.bufs[r.ret].size)])]

\* The caller converts the source tile to any format, with no destination,
\* with its destination buffer, or in place.
ConvertCall ==
    /\ conv.pc = "on"
    /\ \E d_fmt \in Formats, dstopt \in {NoBuffer, 2, conv.cur} :
        \E c \in {Converted(conv, d_fmt, dstopt, "converted")} : conv' = c
    /\ UNCHANGED <<bvars, enc>>

\* The caller converts the returned tile back to the format it started from.
ConvertBack ==
    /\ conv.pc = "converted"
    /\ ~conv.log[1].thrown
    /\ \E dstopt \in {NoBuffer, 2, conv.cur} :
        \E c \in {Converted(conv, conv.log[1].s_fmt, dstopt, "back")} : conv' = c
    /\ UNCHANGED <<bvars, enc>>

\* The caller converts the source tile in place and, from the same memory,
\* into its destination buffer.
ConvertBothWays ==
    /\ conv.pc = "on"
    /\ \E d_fmt \in Formats :
        \E a \in {Converted(conv, d_fmt, conv.cur, "compared")},
           b \in {Converted(conv, d_fmt, 2, "compared")} :
            conv' = [a EXCEPT !.twin = b.log,
                              !.pc = IF b.pc = "crashed" THEN "crashed" ELSE @]
    /\ UNCHANGED <<bvars, enc>>

NextConv ==
    \/ ConvertCall
    \/ ConvertBack
    \/ ConvertBothWays

SpecConv == InitConv /\ [][NextConv]_vars

\* ===================================================== claims on the Buffer
\* The allocator call of the step just taken, if any, returned storage.
AllocationSucceeded(l) == l.mem \in {"malloc", "realloc"} => l.got # NULL
AllocationFailed(l) == l.mem \in {"malloc", "realloc"} /\ l.got = NULL

\* C1: after any sequence of Buffer operations every buffer satisfies
\* 0 <= size <= capacity.
C1_SizeWithinCapacity ==
    pc = "alive" => (0 <= size /\ size <= capacity)

\* C2: while a buffer's strength is WEAK no operation changes its data
\* pointer or its capacity, and none calls the allocator on its region.
C2_WeakNeverReallocates ==
    [][(pc = "alive" /\ pc' = "alive" /\ strength = REFERENCE_WEAK)
        => (/\ data' = data
            /\ capacity' = capacity
            /\ last'.mem = "none"
            /\ Live(heap, data) => (Live(heap', data) /\ Len(heap'[data].bytes) = Len(heap[data].bytes)))]_vars

\* C2 witness: a WEAK buffer refused an append that needed more room.
C2_Witness ==
    /\ pc = "alive"
    /\ strength = REFERENCE_WEAK
    /\ last.op \in {"append", "prepare", "change_capacity"}
    /\ last.n > 0
    /\ (last.op = "append" => last.ret.ptr = NullPtr)
    /\ (last.op # "append" => last.ret.flag = IRIS_FAILURE)

\* C3: append(n) on a WEAK buffer fails (null pointer, buffer unchanged)
\* exactly when size + n > capacity; otherwise it succeeds in place, returns
\* data + old size and sets size = old size + n.
C3_WeakAppend ==
    [][(pc = "alive" /\ strength = REFERENCE_WEAK /\ last'.op = "append")
        => IF size + last'.n > capacity
           THEN /\ last'.ret.ptr = NullPtr
                /\ UNCHANGED <<strength, capacity, size, data, heap>>
           ELSE /\ last'.ret.ptr = PtrAt(data, size)
                /\ size' = size + last'.n
                /\ UNCHANGED <<strength, capacity, data, heap>>]_vars

\* C4: append(n) on a STRONG buffer, when allocation succeeds, returns the
\* pointer at offset old size, sets size = old size + n <= capacity, and
\* keeps the first old-size bytes.
C4_StrongAppend ==
    [][(pc = "alive" /\ strength = REFERENCE_STRONG /\ last'.op = "append"
            /\ AllocationSucceeded(last'))
        => (/\ pc' = "alive"
            /\ last'.ret.ptr = PtrAt(data', size)
            /\ size' = size + last'.n
            /\ size' <= capacity'
            /\ Take(Region(heap', data'), size) = Take(Region(heap, data), size))]_vars

\* C5: append(bytes, n) on a STRONG buffer returns SUCCESS for every n (also
\* when the buffer must grow); then size = old size + n and the contents are
\* the old contents followed by the n given bytes.
C5_StrongAppendBytes ==
    [][(pc = "alive" /\ strength = REFERENCE_STRONG /\ last'.op = "append_bytes"
            /\ size <= capacity /\ AllocationSucceeded(last'))
        => (/\ last'.ret.flag = IRIS_SUCCESS
            /\ size' = size + last'.n
            /\ Take(Region(heap', data'), size') = Take(Region(heap, data), size) \o last'.bytes)]_vars

\* C6: a buffer frees or reallocates its region only while STRONG; a WEAK
\* buffer's destructor frees nothing; change_strength succeeds both ways and
\* touches neither the region nor the other fields.
C6_Ownership ==
    [][/\ last'.mem \in {"realloc", "free"} => strength = REFERENCE_STRONG
       /\ (last'.op = "dtor" /\ strength = REFERENCE_WEAK) => heap' = heap
       /\ (pc = "alive" /\ last'.op = "change_strength")
            => (/\ last'.ret.flag = IRIS_SUCCESS
                /\ strength' = last'.n
                /\ UNCHANGED <<capacity, size, data, heap>>)]_vars

\* C6 witness: a buffer made WEAK after allocating its own region was
\* destroyed and the region is still allocated.
C6_Witness ==
    /\ pc = "destroyed"
    /\ last.op = "dtor"
    /\ strength = REFERENCE_WEAK
    /\ data # NULL /\ data # CallerPtr
    /\ Live(heap, data)

\* C7: when malloc / realloc fails inside a Buffer operation, the operation
\* reports failure, writes through no null region, and leaves no buffer that
\* advertises capacity > 0 without storage.
C7_AllocationFailureRecoverable ==
    [][AllocationFailed(last')
        => (/\ pc' # "crashed"
            /\ ~(pc' = "alive" /\ capacity' > 0 /\ ~Live(heap', data'))
            /\ last'.ret.kind = "ptr" => last'.ret.ptr = NullPtr
            /\ last'.ret.kind = "flag" => last'.ret.flag = IRIS_FAILURE)]_vars

\* C8: postconditions of the four constructors.
C8_ConstructorPostconditions ==
    /\ last.op = "Create_strong_buffer0"
        => (pc = "alive" /\ strength = REFERENCE_STRONG /\ size = 0 /\ capacity = 0)
    /\ last.op = "Create_strong_buffer"
        => (pc = "alive" /\ strength = REFERENCE_STRONG /\ capacity = last.n /\ size = 0)
    /\ last.op = "Copy_strong_buffer_from_data"
        => (/\ pc = "alive"
            /\ strength = REFERENCE_STRONG
            /\ size = last.n /\ capacity = last.n
            /\ data # CallerPtr
            /\ Region(heap, data) = last.bytes
            /\ Region(heap, CallerPtr) = last.bytes)
    /\ last.op = "Wrap_weak_buffer_fom_data"
        => (/\ pc = "alive"
            /\ strength = REFERENCE_WEAK
            /\ size = last.n /\ capacity = last.n
            /\ data = CallerPtr
            /\ Region(heap, data) = last.bytes)

\* ============================================ claims on the tile conversion

\* C9: with the default (absent) destination, convert(convert(b, A, B), B, A)
\* == b byte for byte when A is 3-channel or A and B have the same channel
\* count.
C9_RoundTrip ==
    (/\ conv.pc = "back"
     /\ conv.log[1].dst = NoBuffer /\ conv.log[2].dst = NoBuffer
     /\ conv.log[1].s_fmt \in DefinedFormats /\ conv.log[1].d_fmt \in DefinedFormats
     /\ \/ BytesPerPixel(conv.log[1].s_fmt) = 3
        \/ BytesPerPixel(conv.log[1].s_fmt) = BytesPerPixel(conv.log[1].d_fmt))
    => (~conv.log[2].thrown /\ conv.log[2].output = conv.log[1].input)

\* C10: converting a 3-channel tile to the 4-channel format of the same
\* channel order yields, for every pixel i of the tile, the bytes
\* (src[3i], src[3i+1], src[3i+2], 0xFF), for every lane count.
C10_ExpandCoversTile ==
    \A k \in 1 .. Len(conv.log) :
        LET e == conv.log[k]
        IN  (/\ BytesPerPixel(e.s_fmt) = 3 /\ BytesPerPixel(e.d_fmt) = 4
             /\ OrderTask(e.s_fmt, e.d_fmt) = 0)
            => (/\ ~e.thrown
                /\ Len(e.output) = TILE_PIX_AREA * 4
                /\ \A i \in 0 .. TILE_PIX_AREA - 1 :
                     SubSeq(e.output, 4 * i + 1, 4 * i + 4)
                        = SubSeq(e.input, 3 * i + 1, 3 * i + 3) \o <<255>>)

\* Every recorded call: those of the chain and the twin of the first one.
Calls == {conv.log[k] : k \in 1 .. Len(conv.log)} \cup {conv.twin[k] : k \in 1 .. Len(conv.twin)}
DistinctDefined(e) ==
    e.s_fmt \in DefinedFormats /\ e.d_fmt \in DefinedFormats /\ e.s_fmt # e.d_fmt

\* C11: converting between two formats of the same channel count and opposite
\* channel order returns a tile in which every pixel is the source pixel with
\* bytes 0 and 2 exchanged and the other bytes unchanged, whether the
\* destination is absent, a distinct buffer or the source itself.
C11_SwapPixels ==
    \A e \in Calls :
        (/\ DistinctDefined(e)
         /\ BytesPerPixel(e.s_fmt) = BytesPerPixel(e.d_fmt))
        => LET ch == BytesPerPixel(e.s_fmt)
           IN  /\ ~e.thrown /\ ~e.ub
               /\ Len(e.output) = TILE_PIX_AREA * ch
               /\ \A i \in 0 .. TILE_PIX_AREA - 1 :
                    /\ e.output[ch * i + 1] = e.input[ch * i + 3]
                    /\ e.output[ch * i + 2] = e.input[ch * i + 2]
                    /\ e.output[ch * i + 3] = e.input[ch * i + 1]
                    /\ ch = 4 => e.output[ch * i + 4] = e.input[ch * i + 4]

\* A strip of the alpha channel alone: 4 channels to 3 of the same order.
IsStrip(e) ==
    /\ BytesPerPixel(e.s_fmt) = 4 /\ BytesPerPixel(e.d_fmt) = 3
    /\ OrderTask(e.s_fmt, e.d_fmt) = 0

C13_InPlaceSameAsApart ==
    (/\ conv.pc \in {"compared", "crashed"}
     /\ Len(conv.twin) = 1
     /\ DistinctDefined(conv.log[1])
     /\ conv.log[1].ret = conv.log[1].src)
    => (/\ conv.pc = "compared"
        /\ conv.log[1].output = conv.twin[1].output)

\* C14: for distinct defined formats the returned buffer has size exactly
\* TILE_PIX_AREA * channels(desired format); it is the destination when one
\* is provided with that capacity, otherwise a newly allocated buffer, the
\* provided destination being left untouched.
C14_ResultShape ==
    \A e \in Calls :
        DistinctDefined(e)
        => LET bytes == TILE_PIX_AREA * BytesPerPixel(e.d_fmt)
               usable == e.dst # NoBuffer /\ e.dst_pre[2] >= bytes
           IN  /\ ~e.thrown /\ ~e.ub
               /\ Len(e.output) = bytes
               /\ usable => e.ret = e.dst
               /\ ~usable => (e.ret \notin {NoBuffer, e.src, e.dst} /\ e.dst_post = e.dst_pre)

\* C15: Convert_tile_format reports an error, and returns no buffer, for
\* every call in which the source or the destination format is
\* FORMAT_UNDEFINED, the call with both undefined included.
C15_UndefinedFormatReported ==
    \A e \in Calls :
        (e.s_fmt = FORMAT_UNDEFINED \/ e.d_fmt = FORMAT_UNDEFINED)
        => (e.thrown /\ e.ret = NoBuffer)

\* The task mask of a call: tasks after both task selections.
TaskMask(s_fmt, d_fmt) == ChannelTask(s_fmt, d_fmt) + OrderTask(s_fmt, d_fmt)
HasTask(tasks, bit) == (tasks \div bit) % 2 = 1

\* A conversion that changes both the channel count and the channel order.
NeedsBoth(e) ==
    /\ DistinctDefined(e)
    /\ BytesPerPixel(e.s_fmt) # BytesPerPixel(e.d_fmt)
    /\ OrderTask(e.s_fmt, e.d_fmt) # 0

\* C26: a conversion that needs a channel-count change and a channel-order
\* change returns swap(expand_or_strip(src)): every pixel of the result has
\* bytes 2, 1, 0 of the source pixel, followed by alpha 255 when a channel
\* is added; for distinct defined formats the task mask is never empty and
\* never holds both TASK_EXPAND_ALPHA and TASK_STRIP_ALPHA.
C26_StepOrder ==
    /\ \A s_fmt \in DefinedFormats, d_fmt \in DefinedFormats :
        s_fmt # d_fmt =>
            /\ TaskMask(s_fmt, d_fmt) # 0
            /\ ~(/\ HasTask(TaskMask(s_fmt, d_fmt), TASK_EXPAND_ALPHA)
                 /\ HasTask(TaskMask(s_fmt, d_fmt), TASK_STRIP_ALPHA))
    /\ \A e \in Calls :
        NeedsBoth(e)
        => LET s_bpp == BytesPerPixel(e.s_fmt)
               d_bpp == BytesPerPixel(e.d_fmt)
           IN  /\ ~e.thrown /\ ~e.ub
               /\ Len(e.output) = TILE_PIX_AREA * d_bpp
               /\ \A i \in 0 .. TILE_PIX_AREA - 1 :
                    /\ e.output[d_bpp * i + 1] = e.input[s_bpp * i + 3]
                    /\ e.output[d_bpp * i + 2] = e.input[s_bpp * i + 2]
                    /\ e.output[d_bpp * i + 3] = e.input[s_bpp * i + 1]
                    /\ d_bpp = 4 => e.output[d_bpp * i + 4] = 255

\* The destination passed can take the source tile as it is.
FitsSource(e) == e.dst # NoBuffer /\ e.dst_pre[2] >= Len(e.input)

LogTileLength == 3

TILE_PIX_LENGTH == 2 ^ LogTileLength
HalfLength == TILE_PIX_LENGTH \div 2
QuarterLength == TILE_PIX_LENGTH \div 4
\* Lanes(ScalableTag<uint16_t>): a power of two, the scalar target included.
\* No lane count exceeds the bytes of a region row, as in the source, so the
\* unsigned differences 128 * CH - N and 64 * CH - N do not wrap.
DownLaneCounts == {2 ^ k : k \in 0 .. LogTileLength - 1}

\* The byte at offset off (from 0) of region m; past its end, whatever
\* lies behind it in memory.
Rd(m, off, g) == IF off < Len(m) THEN m[off + 1] ELSE g

\* The state of a kernel run: the destination region, the local array
\* aligned_src, whether memory outside a region or array was accessed, and
\* the loop variables y and x.
KernelRun(dst, al, ub, y, x) == [dst |-> dst, al |-> al, ub |-> ub, y |-> y, x |-> x]

\* Scalar cleanup of the 2x kernel, from byte x of the output row.
RECURSIVE Down2xScalarLoop(_, _, _, _, _, _, _)
Down2xScalarLoop(st, src, row0, row1, orow, CH, g) ==
    IF st.x < HalfLength * CH
    THEN LET x == st.x
             px == [c \in 1 .. CH |->
                     (Rd(src, row0 + 2 * x + c - 1, g) + Rd(src, row0 + 2 * x + CH + c - 1, g)
                      + Rd(src, row1 + 2 * x + c - 1, g) + Rd(src, row1 + 2 * x + CH + c - 1, g)
                      + 2) \div 4]
             out == row1 + 2 * x + 2 * CH > Len(src) \/ orow + x + CH > Len(st.dst)
         IN  Down2xScalarLoop(KernelRun(Store(st.dst, orow + x, px), st.al, st.ub \/ out, st.y, x + CH),
                              src, row0, row1, orow, CH, g)
    ELSE st

\* Vector loop of the 2x kernel, N output bytes at a time, then the cleanup.
RECURSIVE Down2xVectorLoop(_, _, _, _, _, _, _, _)
Down2xVectorLoop(st, src, row0, row1, orow, CH, N, g) ==
    IF st.x * N < HalfLength * CH - N
    THEN LET x == st.x
             first == [i \in 1 .. 2 * N |->
                        Rd(src, row0 + 2 * x + ((i - 1) \div N) * CH + ((i - 1) % N), g)]
             second == [i \in 1 .. 2 * N |->
                         Rd(src, row1 + 2 * x + ((i - 1) \div N) * CH + ((i - 1) % N), g)]
             v == [j \in 1 .. N |-> (first[j] + first[N + j] + second[j] + second[N + j] + 2) \div 4]
             out == row1 + 2 * x + CH + N > Len(src) \/ orow + x + N > Len(st.dst)
         IN  Down2xVectorLoop(KernelRun(Store(st.dst, orow + x, v), second, st.ub \/ out, st.y, x + N),
                              src, row0, row1, orow, CH, N, g)
    ELSE Down2xScalarLoop(st, src, row0, row1, orow, CH, g)

\* The rows y, y + 1, ... of the 2x kernel.
RECURSIVE Down2xRows(_, _, _, _, _, _, _)
Down2xRows(st, src, o_y, o_x, CH, N, g) ==
    IF st.y < HalfLength
    THEN LET stride == TILE_PIX_LENGTH * CH
             row == Down2xVectorLoop(KernelRun(st.dst, st.al, st.ub, st.y, 0), src,
                                     (2 * st.y) * stride, (2 * st.y + 1) * stride,
                                     (st.y + o_y) * stride + o_x * CH, CH, N, g)
         IN  Down2xRows(KernelRun(row.dst, row.al, row.ub, row.y + 1, row.x),
                        src, o_y, o_x, CH, N, g)
    ELSE st

\* template<uint8_t CH> void DOWNSAMPLE_INTO_TILE_2X_AVG(src, dst, s_y, s_x);
\* o_y and o_x are uint8_t.
DOWNSAMPLE_INTO_TILE_2X_AVG(src, dst, s_y, s_x, CH, N, g) ==
    Down2xRows(KernelRun(dst, Splat(g, 2 * N), FALSE, 0, 0), src,
               (s_y * HalfLength) % 256, (s_x * HalfLength) % 256, CH, N, g)

\* The four memcpy calls that fill aligned_src from one source row:
\* N bytes from row + 4x, row + 4x + CH, row + 4x + 2CH and row + 4x + 3CH.
FillAligned(src, row, x, CH, N, g) ==
    [i \in 1 .. 4 * N |-> Rd(src, row + 4 * x + ((i - 1) \div N) * CH + ((i - 1) % N), g)]

\* The four Load calls that follow: lane j sums the bytes of aligned_src at
\* 4x + j, 4x + CH + j, 4x + 2CH + j and 4x + 3CH + j.
SumAligned(al, x, CH, N, g) ==
    [j \in 1 .. N |->
        Rd(al, 4 * x + j - 1, g) + Rd(al, 4 * x + CH + j - 1, g)
        + Rd(al, 4 * x + 2 * CH + j - 1, g) + Rd(al, 4 * x + 3 * CH + j - 1, g)]

\* Scalar cleanup of the 4x kernel, from byte x of the output row; rows are
\* the offsets of the four source rows.
RECURSIVE Down4xScalarLoop(_, _, _, _, _, _)
Down4xScalarLoop(st, src, rows, orow, CH, g) ==
    IF st.x < QuarterLength * CH
    THEN LET x == st.x
             RowSum(r, c) ==
                 Rd(src, rows[r] + 4 * x + c - 1, g) + Rd(src, rows[r] + 4 * x + CH + c - 1, g)
                 + Rd(src, rows[r] + 4 * x + 2 * CH + c - 1, g)
                 + Rd(src, rows[r] + 4 * x + 3 * CH + c - 1, g)
             px == [c \in 1 .. CH |->
                     (RowSum(1, c) + RowSum(2, c) + RowSum(3, c) + RowSum(4, c) + 8) \div 16]
             out == rows[4] + 4 * x + 4 * CH > Len(src) \/ orow + x + CH > Len(st.dst)
         IN  Down4xScalarLoop(KernelRun(Store(st.dst, orow + x, px), st.al, st.ub \/ out, st.y, x + CH),
                              src, rows, orow, CH, g)
    ELSE st

\* Vector loop of the 4x kernel, N output bytes at a time, then the cleanup.
RECURSIVE Down4xVectorLoop(_, _, _, _, _, _, _)
Down4xVectorLoop(st, src, rows, orow, CH, N, g) ==
    IF st.x * N < QuarterLength * CH - N
    THEN LET x == st.x
             al == [r \in 1 .. 4 |-> FillAligned(src, rows[r], x, CH, N, g)]
             sum == [r \in 1 .. 4 |-> SumAligned(al[r], x, CH, N, g)]
             v == [j \in 1 .. N |-> (sum[1][j] + sum[2][j] + sum[3][j] + sum[4][j] + 8) \div 16]
             out == \/ rows[4] + 4 * x + 3 * CH + N > Len(src)
                    \/ 4 * x + 3 * CH + N > 4 * N
                    \/ orow + x + N > Len(st.dst)
         IN  Down4xVectorLoop(KernelRun(Store(st.dst, orow + x, v), al[4], st.ub \/ out, st.y, x + N),
                              src, rows, orow, CH, N, g)
    ELSE Down4xScalarLoop(st, src, rows, orow, CH, g)

\* The rows y, y + 1, ... of the 4x kernel.
RECURSIVE Down4xRows(_, _, _, _, _, _, _)
Down4xRows(st, src, o_y, o_x, CH, N, g) ==
    IF st.y < QuarterLength
    THEN LET stride == TILE_PIX_LENGTH * CH
             row == Down4xVectorLoop(KernelRun(st.dst, st.al, st.ub, st.y, 0), src,
                                     [r \in 1 .. 4 |-> (4 * st.y + r - 1) * stride],
                                     (st.y + o_y) * stride + o_x * CH, CH, N, g)
         IN  Down4xRows(KernelRun(row.dst, row.al, row.ub, row.y + 1, row.x),
                        src, o_y, o_x, CH, N, g)
    ELSE st

\* template<uint8_t CH> void DOWNSAMPLE_INTO_TILE_4X_AVG(src, dst, s_y, s_x);
\* o_y and o_x are uint8_t.
DOWNSAMPLE_INTO_TILE_4X_AVG(src, dst, s_y, s_x, CH, N, g) ==
    Down4xRows(KernelRun(dst, Splat(g, 4 * N), FALSE, 0, 0), src,
               (s_y * QuarterLength) % 256, (s_x * QuarterLength) % 256, CH, N, g)

\* A buffer handed to the downsamplers: size() and the bytes at data().
DownBuf(sz, region) == [size |-> sz, region |-> region]

\* The outcome of a downsample call: the destination region, whether an
\* assert stopped the call, whether it threw, and whether memory outside a
\* region or array was accessed.
DownResult(dst, aborted, thrown, ub) ==
    [dst |-> dst, aborted |-> aborted, thrown |-> thrown, ub |-> ub]

\* The two asserts at the entry of both downsamplers; asserts is FALSE in a
\* build with NDEBUG, where they are compiled out.
DownAssertsPass(src, dst, channels, asserts) ==
    \/ ~asserts
    \/ /\ src.size <= TILE_PIX_LENGTH * TILE_PIX_LENGTH * channels
       /\ dst.size <= TILE_PIX_LENGTH * TILE_PIX_LENGTH * channels

\* void Downsample_into_tile_2x_avg(src, dst, sub_y, sub_x, channels)
Downsample_into_tile_2x_avg(src, dst, sub_y, sub_x, channels, N, g, asserts) ==
    IF ~DownAssertsPass(src, dst, channels, asserts)
    THEN DownResult(dst.region, TRUE, FALSE, FALSE)
    ELSE IF channels \in {3, 4}
    THEN LET r == DOWNSAMPLE_INTO_TILE_2X_AVG(src.region, dst.region, sub_y, sub_x, channels, N, g)
         IN  DownResult(r.dst, FALSE, FALSE, r.ub)
    ELSE DownResult(dst.region, FALSE, TRUE, FALSE)

\* void Downsample_into_tile_4x_avg(src, dst, sub_y, sub_x, channels)
Downsample_into_tile_4x_avg(src, dst, sub_y, sub_x, channels, N, g, asserts) ==
    IF ~DownAssertsPass(src, dst, channels, asserts)
    THEN DownResult(dst.region, TRUE, FALSE, FALSE)
    ELSE IF channels \in {3, 4}
    THEN LET r == DOWNSAMPLE_INTO_TILE_4X_AVG(src.region, dst.region, sub_y, sub_x, channels, N, g)
         IN  DownResult(r.dst, FALSE, FALSE, r.ub)
    ELSE DownResult(dst.region, FALSE, TRUE, FALSE)

\* ------------------------------------------- the downsample calls (SpecDown)
\* conv holds, in this specification, one source tile and one destination
\* tile of TILE_PIX_LENGTH x TILE_PIX_LENGTH pixels, the build (lane count,
\* asserts on or off), and the call made.

\* Source tiles: every pixel value in every channel; value everywhere but in
\* pixel (py, px), whose channels hold other; every byte different.
UniformTile(channels, value) == Splat(value, TILE_PIX_LENGTH * TILE_PIX_LENGTH * channels)
OutlierTile(channels, value, other, py, px) ==
    [j \in 1 .. TILE_PIX_LENGTH * TILE_PIX_LENGTH * channels |->
        IF (j - 1) \div channels = py * TILE_PIX_LENGTH + px THEN other ELSE value]
OutlierAt == {0, 1, TILE_PIX_LENGTH - 1}
SourceTiles(channels) ==
    {[kind |-> "uniform", bytes |-> UniformTile(channels, 100)],
     [kind |-> "pattern", bytes |-> TilePattern(0, TILE_PIX_LENGTH * TILE_PIX_LENGTH * channels)]}
    \cup {[kind |-> "outlier", bytes |-> OutlierTile(channels, 100, 200, py, px)] :
            py \in OutlierAt, px \in OutlierAt}

\* The sizes <<src, dst>> of the buffers passed for a tile of n bytes: two
\* tile buffers, or one of them a byte short or a byte long.
DownSizes(kind, n) ==
    IF kind = "uniform"
    THEN {<<n, n>>, <<n - 1, n>>, <<n + 1, n>>, <<n, n - 1>>, <<n, n + 1>>}
    ELSE {<<n, n>>}

InitDown ==
    /\ pc = "none"
    /\ strength = REFERENCE_STRONG
    /\ capacity = 0
    /\ size = 0
    /\ data = NULL
    /\ heap = EmptyHeap
    /\ last = NoCall
    /\ enc = EncIdle
    /\ \E N \in DownLaneCounts, g \in Garbage, channels \in {3, 4}, asserts \in BOOLEAN :
        \E tile \in SourceTiles(channels) :
            \E sizes \in DownSizes(tile.kind, TILE_PIX_LENGTH * TILE_PIX_LENGTH * channels) :
                LET bytes == ReadBytes(tile.bytes, sizes[1], g)
                IN  conv = [pc |-> "ready", N |-> N, g |-> g, asserts |-> asserts,
                            channels |-> channels, kind |-> tile.kind,
                            src |-> DownBuf(sizes[1], bytes),
                            dst |-> DownBuf(sizes[2], TilePattern(1, sizes[2])),
                            factor |-> 0, sub_y |-> 0, sub_x |-> 0,
                            src_pre |-> bytes, dst_pre |-> TilePattern(1, sizes[2]),
                            aborted |-> FALSE, thrown |-> FALSE, ub |-> FALSE]

\* One downsample call with result r; a call with a memory error ends the run.
Downsampled(factor, sub_y, sub_x, r) ==
    conv' = [conv EXCEPT !.pc = IF r.ub THEN "crashed" ELSE "done",
                         !.dst = DownBuf(conv.dst.size, r.dst),
                         !.factor = factor, !.sub_y = sub_y, !.sub_x = sub_x,
                         !.aborted = r.aborted, !.thrown = r.thrown, !.ub = r.ub]

Downsample2x ==
    /\ conv.pc = "ready"
    /\ \E sub_y \in 0 .. 1, sub_x \in 0 .. 1 :
        \E r \in {Downsample_into_tile_2x_avg(conv.src, conv.dst, sub_y, sub_x,
                                              conv.channels, conv.N, conv.g, conv.asserts)} :
            Downsampled(2, sub_y, sub_x, r)
    /\ UNCHANGED <<bvars, enc>>

Downsample4x ==
    /\ conv.pc = "ready"
    /\ \E sub_y \in 0 .. 3, sub_x \in 0 .. 3 :
        \E r \in {Downsample_into_tile_4x_avg(conv.src, conv.dst, sub_y, sub_x,
                                              conv.channels, conv.N, conv.g, conv.asserts)} :
            Downsampled(4, sub_y, sub_x, r)
    /\ UNCHANGED <<bvars, enc>>

NextDown == Downsample2x \/ Downsample4x

SpecDown == InitDown /\ [][NextDown]_vars

\* ----------------------------------------------- claims on the downsamplers
\* The formulas below are checked under SpecDown.

\* The buffers passed hold exactly one tile each.
TileSized ==
    /\ conv.src.size = TILE_PIX_LENGTH * TILE_PIX_LENGTH * conv.channels
    /\ conv.dst.size = TILE_PIX_LENGTH * TILE_PIX_LENGTH * conv.channels

DownCalled(factor) == conv.pc \in {"done", "crashed"} /\ conv.factor = factor /\ TileSized

\* Channel c (from 0) of pixel (py, px) of a tile region.
DownPixel(m, py, px, c, CH) == m[(py * TILE_PIX_LENGTH + px) * CH + c + 1]

\* The sum of channel c over pixels k, k + 1, ... f * f - 1 of the f x f block
\* of source pixels (f * y .. f * y + f - 1, f * x .. f * x + f - 1).
RECURSIVE BlockSum(_, _, _, _, _, _, _)
BlockSum(m, y, x, c, CH, f, k) ==
    IF k < f * f
    THEN DownPixel(m, f * y + (k \div f), f * x + (k % f), c, CH) + BlockSum(m, y, x, c, CH, f, k + 1)
    ELSE 0

BoxAverage(m, y, x, c, CH, f) == (BlockSum(m, y, x, c, CH, f, 0) + (f * f) \div 2) \div (f * f)

\* The output pixels of the call, within its sub-region.
OutPixels(f) == (0 .. TILE_PIX_LENGTH \div f - 1) \X (0 .. TILE_PIX_LENGTH \div f - 1)

\* Channel c of output pixel p of the sub-region the call targeted.
OutPixel(p, c, f) ==
    DownPixel(conv.dst.region, (TILE_PIX_LENGTH \div f) * conv.sub_y + p[1],
              (TILE_PIX_LENGTH \div f) * conv.sub_x + p[2], c, conv.channels)

IsBoxFilter(f) ==
    /\ ~conv.ub /\ ~conv.aborted /\ ~conv.thrown
    /\ \A p \in OutPixels(f), c \in 0 .. conv.channels - 1 :
        OutPixel(p, c, f) = BoxAverage(conv.src.region, p[1], p[2], c, conv.channels, f)

\* C16: after Downsample_into_tile_2x_avg, every channel of every output
\* pixel of the targeted sub-region is (the sum of that channel over the 2x2
\* block of source pixels + 2) >> 2; with a single outlier pixel in the
\* source, exactly one output pixel differs from the others.
C16_BoxFilter2x ==
    DownCalled(2) =>
        /\ IsBoxFilter(2)
        /\ conv.kind = "outlier" =>
            Cardinality({p \in OutPixels(2) :
                            \E c \in 0 .. conv.channels - 1 : OutPixel(p, c, 2) # 100}) = 1

\* C17: after Downsample_into_tile_4x_avg, every channel of every output
\* pixel of the targeted sub-region is (the sum of that channel over the 4x4
\* block of source pixels + 8) >> 4.
C17_BoxFilter4x == DownCalled(4) => IsBoxFilter(4)

\* C18: downsampling a uniform tile of value v, by 2 or by 4, leaves v in
\* every byte of the targeted sub-region, for 3 and 4 channels, every
\* sub-coordinate and every lane count.
C18_UniformNeutral ==
    ((DownCalled(2) \/ DownCalled(4)) /\ conv.kind = "uniform") =>
        /\ ~conv.ub /\ ~conv.aborted /\ ~conv.thrown
        /\ \A p \in OutPixels(conv.factor), c \in 0 .. conv.channels - 1 :
            OutPixel(p, c, conv.factor) = conv.src.region[1]

\* The kernel run with lanes as wide as a row of the sub-region: the vector
\* loop is never entered and the scalar cleanup loop produces every byte.
ScalarPath ==
    IF conv.factor = 2
    THEN DOWNSAMPLE_INTO_TILE_2X_AVG(conv.src_pre, conv.dst_pre, conv.sub_y, conv.sub_x,
                                     conv.channels, HalfLength * conv.channels, conv.g)
    ELSE DOWNSAMPLE_INTO_TILE_4X_AVG(conv.src_pre, conv.dst_pre, conv.sub_y, conv.sub_x,
                                     conv.channels, QuarterLength * conv.channels, conv.g)

\* C19: the bytes a kernel produces with the vector loop are the bytes its
\* scalar cleanup loop alone produces, so the output is the same for every
\* lane count.
C19_VectorSameAsScalar ==
    (DownCalled(2) \/ DownCalled(4)) => conv.dst.region = ScalarPath.dst

\* A byte offset (from 1) of the tile lies in the sub-region the call targeted.
InSubRegion(j, f) ==
    LET pixel == (j - 1) \div conv.channels
    IN  /\ (pixel \div TILE_PIX_LENGTH) \div (TILE_PIX_LENGTH \div f) = conv.sub_y
        /\ (pixel % TILE_PIX_LENGTH) \div (TILE_PIX_LENGTH \div f) = conv.sub_x

\* C20: a downsample call changes no byte of dst outside the sub-region it
\* targets and no byte of src, and touches no memory outside the two tiles.
C20_DownsampleFrame ==
    (DownCalled(2) \/ DownCalled(4)) =>
        /\ ~conv.ub
        /\ conv.src.region = conv.src_pre
        /\ \A j \in 1 .. Len(conv.dst_pre) :
            ~InSubRegion(j, conv.factor) => conv.dst.region[j] = conv.dst_pre[j]

\* The size checks at the entry of the call made rejected it.
Rejected == conv.aborted

\* C21: the size checks at the entry of both downsamplers pass exactly for
\* the calls whose src and dst hold at least one tile of the given channel
\* count: a smaller src or dst is rejected, sufficiently large ones accepted.
C21_SizePrecondition ==
    (conv.pc \in {"done", "crashed"} /\ conv.factor \in {2, 4}) =>
        (~Rejected <=>
            /\ conv.src.size >= TILE_PIX_LENGTH * TILE_PIX_LENGTH * conv.channels
            /\ conv.dst.size >= TILE_PIX_LENGTH * TILE_PIX_LENGTH * conv.channels)

\* =============================================================== the encoder
\* IrisCodecCore.hpp declares the encoder calls and IrisCodecTypes.hpp its
\* types; the implementation is not among these sources, so the behaviour of
\* the calls and of the worker pool follows the specification (4.G, 5, 7).

MaxTiles == 2
NumWorkers == 2

ENCODER_INACTIVE == 0
ENCODER_ACTIVE == 1
ENCODER_ERROR == 2
ENCODER_SHUTDOWN == 3
IRIS_UNINITIALIZED == 1

Workers == 1 .. NumWorkers
NoPath == ""
SrcPaths == {"slide"}
CachePath == "cache"
DstPaths == {"out"}

\* set_src / set_src_cache / set_dst_path: permitted only in INACTIVE.
CanConfigureAlways(status) == TRUE
CanConfigure(status) == status = ENCODER_INACTIVE

\* reset_encoder: from INACTIVE / ERROR / SHUTDOWN.
CanResetAlways(status) == TRUE
CanReset(status) == status \in {ENCODER_INACTIVE, ENCODER_ERROR, ENCODER_SHUTDOWN}

\* The status a run ends in once its workers have drained: SHUTDOWN on
\* cancel, ERROR on a latched worker error, INACTIVE on completion.
RunOutcomeIgnoresCancel(cancel, error) ==
    IF error # "" THEN ENCODER_ERROR ELSE ENCODER_INACTIVE
RunOutcome(cancel, error) ==
    IF cancel THEN ENCODER_SHUTDOWN
    ELSE IF error # "" THEN ENCODER_ERROR
    ELSE ENCODER_INACTIVE

\* progress is completed_tiles / total_tiles; one more tile completed.
CountTileTwice(completed) == completed + 2
CountTile(completed) == completed + 1

\* get_progress -> (status, progress, dst_path, error_msg), progress as the
\* pair completed_tiles, total_tiles.
EncoderProgress(e) ==
    [status |-> e.status, completed |-> e.completed, total |-> e.total,
     dstFilePath |-> e.dst, errorMsg |-> e.error]

NoPool == [w \in Workers |-> "none"]

\* create_encoder(info): validates paths, allocates, enters INACTIVE.
create_encoder(src, dst) ==
    [pc |-> "on", status |-> ENCODER_INACTIVE, src |-> src, dst |-> dst,
     cancel |-> FALSE, error |-> "", queue |-> 0, completed |-> 0, total |-> 0,
     worker |-> NoPool, file |-> "none", op |-> "create_encoder", ret |-> IRIS_SUCCESS,
     seen |-> [status |-> ENCODER_INACTIVE, completed |-> 0, total |-> 0,
               dstFilePath |-> dst, errorMsg |-> ""]]

InitEnc ==
    /\ pc = "none"
    /\ strength = REFERENCE_STRONG
    /\ capacity = 0
    /\ size = 0
    /\ data = NULL
    /\ heap = EmptyHeap
    /\ last = NoCall
    /\ conv = ConvIdle
    /\ \E src \in SrcPaths, dst \in DstPaths : enc = create_encoder(src, dst)

\* An API call that fails changes nothing but its result.
EncFailed(op, flag) == enc' = [enc EXCEPT !.op = op, !.ret = flag]

set_encoder_src ==
    /\ enc.pc = "on"
    /\ \E path \in SrcPaths :
        IF CanConfigure(enc.status)
        THEN enc' = [enc EXCEPT !.src = path, !.op = "set_encoder_src", !.ret = IRIS_SUCCESS]
        ELSE EncFailed("set_encoder_src", IRIS_FAILURE)
    /\ UNCHANGED <<bvars, conv>>

set_encoder_src_cache ==
    /\ enc.pc = "on"
    /\ IF CanConfigure(enc.status)
       THEN enc' = [enc EXCEPT !.src = CachePath, !.op = "set_encoder_src_cache",
                               !.ret = IRIS_SUCCESS]
       ELSE EncFailed("set_encoder_src_cache", IRIS_FAILURE)
    /\ UNCHANGED <<bvars, conv>>

set_encoder_dst_path ==
    /\ enc.pc = "on"
    /\ \E path \in DstPaths :
        IF CanConfigure(enc.status)
        THEN enc' = [enc EXCEPT !.dst = path, !.op = "set_encoder_dst_path", !.ret = IRIS_SUCCESS]
        ELSE EncFailed("set_encoder_dst_path", IRIS_FAILURE)
    /\ UNCHANGED <<bvars, conv>>

\* dispatch_encoder: INACTIVE -> ACTIVE, launches the worker pool over the
\* tiles of the destination (at least one); the destination file is opened.
dispatch_encoder ==
    /\ enc.pc = "on"
    /\ IF enc.status # ENCODER_INACTIVE
       THEN EncFailed("dispatch_encoder", IRIS_FAILURE)
       ELSE IF enc.src = NoPath \/ enc.dst = NoPath
       THEN EncFailed("dispatch_encoder", IRIS_UNINITIALIZED)
       ELSE \E total \in 1 .. MaxTiles :
                enc' = [enc EXCEPT !.status = ENCODER_ACTIVE, !.cancel = FALSE, !.error = "",
                                   !.queue = total, !.completed = 0, !.total = total,
                                   !.worker = [w \in Workers |-> "ready"],
                                   !.file = "partial",
                                   !.op = "dispatch_encoder", !.ret = IRIS_SUCCESS,
                                   !.seen = [status |-> ENCODER_ACTIVE, completed |-> 0,
                                             total |-> total, dstFilePath |-> enc.dst,
                                             errorMsg |-> ""]]
    /\ UNCHANGED <<bvars, conv>>

\* interrupt_encoder: sets the cooperative cancel flag of an active encoder.
interrupt_encoder ==
    /\ enc.pc = "on"
    /\ IF enc.status = ENCODER_ACTIVE
       THEN enc' = [enc EXCEPT !.cancel = TRUE, !.op = "interrupt_encoder", !.ret = IRIS_SUCCESS]
       ELSE EncFailed("interrupt_encoder", IRIS_FAILURE)
    /\ UNCHANGED <<bvars, conv>>

\* reset_encoder: back to INACTIVE with the paths cleared.
reset_encoder ==
    /\ enc.pc = "on"
    /\ IF CanReset(enc.status)
       THEN enc' = [enc EXCEPT !.status = ENCODER_INACTIVE, !.src = NoPath, !.dst = NoPath,
                               !.cancel = FALSE, !.error = "", !.queue = 0,
                               !.completed = 0, !.total = 0,
                               !.op = "reset_encoder", !.ret = IRIS_SUCCESS]
       ELSE EncFailed("reset_encoder", IRIS_FAILURE)
    /\ UNCHANGED <<bvars, conv>>

get_encoder_progress ==
    /\ enc.pc = "on"
    /\ enc' = [enc EXCEPT !.seen = EncoderProgress(enc), !.op = "get_encoder_progress",
                          !.ret = IRIS_SUCCESS]
    /\ UNCHANGED <<bvars, conv>>

\* A worker between tiles polls the cancel flag and the error latch, then
\* takes the next tile of the shared queue, or drains.
WorkerTake(w) ==
    /\ enc.pc = "on"
    /\ enc.worker[w] = "ready"
    /\ IF enc.cancel \/ enc.error # "" \/ enc.queue = 0
       THEN enc' = [enc EXCEPT !.worker[w] = "drained", !.op = "worker"]
       ELSE enc' = [enc EXCEPT !.worker[w] = "busy", !.queue = @ - 1, !.op = "worker"]
    /\ UNCHANGED <<bvars, conv>>

\* The worker has written its tile: progress is updated atomically.
WorkerDone(w) ==
    /\ enc.pc = "on"
    /\ enc.worker[w] = "busy"
    /\ enc' = [enc EXCEPT !.worker[w] = "ready", !.completed = CountTile(@), !.op = "worker"]
    /\ UNCHANGED <<bvars, conv>>

\* The worker fails on its tile: the first error is latched.
WorkerFail(w) ==
    /\ enc.pc = "on"
    /\ enc.worker[w] = "busy"
    /\ enc' = [enc EXCEPT !.worker[w] = "ready",
                          !.error = IF @ = "" THEN "worker error" ELSE @,
                          !.op = "worker"]
    /\ UNCHANGED <<bvars, conv>>

\* All workers have drained: the run ends. A complete file is finished
\* (directory, then root offset); a cancelled or failed run closes and
\* deletes the partial output.
Finalize ==
    /\ enc.pc = "on"
    /\ \A w \in Workers : enc.worker[w] = "drained"
    /\ \E outcome \in {RunOutcome(enc.cancel, enc.error)} :
        enc' = [enc EXCEPT !.status = outcome,
                           !.file = IF outcome = ENCODER_INACTIVE THEN "complete" ELSE "none",
                           !.worker = NoPool, !.op = "finalize"]
    /\ UNCHANGED <<bvars, conv>>

Worker(w) == WorkerTake(w) \/ WorkerDone(w) \/ WorkerFail(w)

NextEnc ==
    \/ set_encoder_src
    \/ set_encoder_src_cache
    \/ set_encoder_dst_path
    \/ dispatch_encoder
    \/ interrupt_encoder
    \/ reset_encoder
    \/ get_encoder_progress
    \/ \E w \in Workers : WorkerTake(w)
    \/ \E w \in Workers : WorkerDone(w)
    \/ \E w \in Workers : WorkerFail(w)
    \/ Finalize

SpecEnc == InitEnc /\ [][NextEnc]_vars

\* The operating system schedules every worker thread, and the thread that
\* joins the pool, again and again.
SpecEncFair ==
    /\ InitEnc /\ [][NextEnc]_vars
    /\ \A w \in Workers : WF_vars(Worker(w))
    /\ WF_vars(Finalize)

\* --------------------------------------------------- claims on the encoder
\* The formulas below are checked under SpecEnc, C24 under SpecEncFair.

ConfigureCalls == {"set_encoder_src", "set_encoder_src_cache", "set_encoder_dst_path"}

\* C23: set_encoder_src, set_encoder_src_cache and set_encoder_dst_path
\* succeed only on an INACTIVE encoder; in any other status they fail and
\* leave source, destination path and status as they were.
C23_ConfigurationFrozen ==
    [][enc'.op \in ConfigureCalls =>
            IF enc.status = ENCODER_INACTIVE
            THEN enc'.ret = IRIS_SUCCESS
            ELSE /\ enc'.ret # IRIS_SUCCESS
                 /\ enc'.src = enc.src /\ enc'.dst = enc.dst
                 /\ enc'.status = enc.status]_vars

C23_Witness ==
    /\ enc.op \in ConfigureCalls /\ enc.ret = IRIS_FAILURE
    /\ enc.status = ENCODER_ACTIVE

C25_Progress ==
    /\ [](/\ 0 <= enc.seen.completed /\ enc.seen.completed <= enc.seen.total
          /\ 0 <= enc.completed /\ enc.completed <= enc.total)
    /\ [][(enc'.op = "get_encoder_progress" /\ enc.total > 0) =>
            enc'.seen.completed * enc.seen.total >= enc.seen.completed * enc'.seen.total]_vars
    /\ [][(enc'.op = "finalize" /\ ~enc.cancel /\ enc.error = "") =>
            /\ enc'.status = ENCODER_INACTIVE
            /\ enc'.completed = enc'.total /\ enc'.total > 0]_vars

C25_Witness ==
    /\ enc.op = "get_encoder_progress"
    /\ enc.seen.status = ENCODER_INACTIVE
    /\ enc.seen.total = MaxTiles /\ enc.seen.completed = enc.seen.total

\* ------------------------------------------- claims on growth and hand-out
GrowthCalls == {"append", "append_bytes", "prepare", "shrink_to_fit"}
ReportsFailure(l) ==
    IF l.op = "append" THEN l.ret.ptr = NullPtr ELSE l.ret.flag = IRIS_FAILURE

\* C28: whenever append(n), append(bytes, n), prepare or shrink_to_fit reports
\* failure (null pointer or IRIS_FAILURE), the buffer's size, capacity and
\* existing bytes are exactly what they were before the call.
C28_FailureAtomicity ==
    [][(pc = "alive" /\ last'.op \in GrowthCalls /\ ReportsFailure(last'))
        => (/\ size' = size
            /\ capacity' = capacity
            /\ Take(Region(heap', data'), size) = Take(Region(heap, data), size))]_vars

\* C29: for every lane count, channel count in {3, 4} and in-range
\* sub-coordinate, a kernel called on tile-sized buffers reads only inside the
\* source tile and its own scratch arrays and writes only inside the
\* destination tile. Checked under SpecDown for the two averaging kernels.
C29_KernelMemorySafety ==
    (conv.pc \in {"done", "crashed"} /\ conv.factor \in {2, 4} /\ TileSized /\ ~Rejected)
        => ~conv.ub

\* The n bytes behind pointer p lie inside the region [d, d + c).
InsideOwned(p, n, d, c) ==
    n > 0 => (p.base = d /\ d # NULL /\ p.off + n <= c)

\* C30: a call Buffer_write_into_buffer(buf, n) that raises no error returns a
\* pointer p with [p, p + n) inside [data, data + capacity); on a WEAK buffer
\* it raises an error when n exceeds the capacity and otherwise leaves size,
\* capacity and data pointer unchanged; on a STRONG buffer p is at offset old
\* size and size grows by n.
C30_WriteIntoBuffer ==
    [][(pc = "alive" /\ last'.op = "Buffer_write_into_buffer")
        => /\ last'.ret.kind # "throw"
                => InsideOwned(last'.ret.ptr, last'.n, data', capacity')
           /\ strength = REFERENCE_WEAK
                => /\ last'.n > capacity => last'.ret.kind = "throw"
                   /\ last'.ret.kind # "throw" => UNCHANGED <<size, capacity, data>>
           /\ (strength = REFERENCE_STRONG /\ last'.ret.kind # "throw")
                => /\ last'.ret.ptr.off = size
                   /\ size' = size + last'.n]_vars

====
